---------------------------- MODULE Spec2Model ----------------------------
(***************************************************************************)
(* A model of src/src/dx_eventgen.py: the event compiler that turns a YAML *)
(* event description into the nested-block text of the scenario editor.    *)
(*                                                                         *)
(* Representation.                                                         *)
(*  - A Python str is a tuple of atoms.  An atom is one character ("a",    *)
(*    "$", "{", "}", "\n", "\t", " ", a digit ...) or a fixed word that is *)
(*    never taken apart (a dictionary key such as "narration", or one of  *)
(*    the CJK literals of the source, written here as an ASCII stand-in    *)
(*    because the module is ASCII: the table is next to each literal).     *)
(*  - A YAML value is a record [t, s, n, keys, items]: t is the Python     *)
(*    type ("str", "int", "bool", "none", "list", "dict"), s the text of a *)
(*    str, n the number of an int/bool, keys/items the keys and values of  *)
(*    a dict (in document order) or items the elements of a list.          *)
(*  - A function result is a record [ok, out, err]: the returned value or  *)
(*    the exception raised.                                                *)
(***************************************************************************)
EXTENDS Integers, Sequences, FiniteSets, TLC

VARIABLES
    pc,         \* position of main(): where the run is
    argc,       \* len(sys.argv)
    fs,         \* the enum files: file name -> parsed YAML content, or Missing
    lang,       \* EnumMaps.lang / the lang argument of load_enum_map
    input,      \* the input document as yaml.safe_load returns it, or an I/O failure
    disk,       \* how the output path behaves when written ("ok", "fail_open", "fail_write")
    maps,       \* the EnumMaps instance once built
    data,       \* main's local: the loaded document
    dx_script,  \* main's local: the text generate_event returned
    outfile,    \* the output file: [state, content]
    exitcode,   \* the process exit code, -1 while running
    err,        \* the exception main caught
    failedAt,   \* the step of main that raised
    readLog,    \* the enum files whose content has been read (path.read_text)
    call,       \* arguments of the function applied by the single-function specifications
    ret         \* its result

vars == <<pc, argc, fs, lang, input, disk, maps, data, dx_script, outfile,
          exitcode, err, failedAt, readLog, call, ret>>

-----------------------------------------------------------------------------
(* Bounds of the model *)

MaxTextLen == 2      \* longest free text (narration, label, event name) enumerated
MaxOptions == 2      \* most options of an enumerated choice
MaxDepth == 2        \* deepest nesting of choices enumerated
MaxLevel == 1        \* largest indent level compile_script_block is started at
MaxKeyLen == 3       \* longest enum key / lookup key enumerated
MaxKeys == 4         \* most keys of an enumerated enum table
MaxEntries == 2      \* most entries of an enumerated enum file

-----------------------------------------------------------------------------
(* Python values *)

TAB == "\t"
NL == "\n"
DEFAULT_LANG == <<"tc">>

YStr(s) == [t |-> "str", s |-> s, n |-> 0, keys |-> <<>>, items |-> <<>>]
YInt(n) == [t |-> "int", s |-> <<>>, n |-> n, keys |-> <<>>, items |-> <<>>]
YBool(b) == [t |-> "bool", s |-> <<>>, n |-> IF b THEN 1 ELSE 0, keys |-> <<>>, items |-> <<>>]
YNone == [t |-> "none", s |-> <<>>, n |-> 0, keys |-> <<>>, items |-> <<>>]
YList(xs) == [t |-> "list", s |-> <<>>, n |-> 0, keys |-> <<>>, items |-> xs]
YDict(ks, xs) == [t |-> "dict", s |-> <<>>, n |-> 0, keys |-> ks, items |-> xs]

IsDict(v) == v.t = "dict"
IsList(v) == v.t = "list"
IsStr(v) == v.t = "str"

\* `k in d`
Has(d, k) == \E i \in 1..Len(d.keys) : d.keys[i] = k
\* `d[k]`
Get(d, k) == d.items[CHOOSE i \in 1..Len(d.keys) : d.keys[i] = k]
\* `d.get(k, default)`
GetOr(d, k, default) == IF Has(d, k) THEN Get(d, k) ELSE default

RECURSIVE Digits(_)
Digits(n) == IF n < 10 THEN <<ToString(n)>> ELSE Digits(n \div 10) \o <<ToString(n % 10)>>

\* str(int)
IntText(n) == IF n < 0 THEN <<"-">> \o Digits(0 - n) ELSE Digits(n)

\* str(v) of a scalar; a list or dict prints as its repr, kept as one atom
PyStr(v) ==
    CASE v.t = "str" -> v.s
      [] v.t = "int" -> IntText(v.n)
      [] v.t = "bool" -> IF v.n = 1 THEN <<"True">> ELSE <<"False">>
      [] v.t = "none" -> <<"None">>
      [] OTHER -> <<"<repr>">>

\* bool(v)
PyBool(v) ==
    CASE v.t = "str" -> v.s # <<>>
      [] v.t = "int" -> v.n # 0
      [] v.t = "bool" -> v.n = 1
      [] v.t = "none" -> FALSE
      [] v.t = "list" -> v.items # <<>>
      [] OTHER -> v.keys # <<>>

DigitAtoms == {"0", "1", "2", "3", "4", "5", "6", "7", "8", "9"}
DigitVal(c) == CHOOSE d \in 0..9 : ToString(d) = c

RECURSIVE ParseDigits(_, _)
ParseDigits(s, acc) ==
    IF s = <<>> THEN acc ELSE ParseDigits(Tail(s), acc * 10 + DigitVal(Head(s)))

Whitespace == {" ", TAB, NL}

\* s.strip() == ""
IsBlank(s) == \A i \in 1..Len(s) : s[i] \in Whitespace

RECURSIVE Strip(_)
Strip(s) ==
    IF s = <<>> THEN s
    ELSE IF Head(s) \in Whitespace THEN Strip(Tail(s))
    ELSE IF s[Len(s)] \in Whitespace THEN Strip(SubSeq(s, 1, Len(s) - 1))
    ELSE s

\* an exception: its class, its message text and, for a CompileError, the
\* structural path it was constructed with
NoErr == [type |-> "none", msg |-> <<>>, path |-> ""]
Raise(type, msg, path) == [type |-> type, msg |-> msg, path |-> path]
CompileError(msg, path) == Raise("CompileError", msg, path)
Ok(v) == [ok |-> TRUE, out |-> v, err |-> NoErr]
Fail(e) == [ok |-> FALSE, out |-> <<>>, err |-> e]

\* `v = <r>; <Rest>`: an exception raised while computing r propagates,
\* otherwise the statements after it run with the value
Bind(r, Rest(_)) == IF r.ok THEN Rest(r.out) ELSE r
\* `v = <x>; <Rest>` for an x that cannot raise
Let(x, Rest(_)) == Rest(x)

\* int(v): an int or bool is its number; a str is parsed (surrounding
\* whitespace stripped, an optional sign, then digits); anything else raises
PyInt(v) ==
    CASE v.t \in {"int", "bool"} -> Ok(v.n)
      [] v.t = "str" ->
            Let(Strip(v.s), LAMBDA s :
              LET neg == s # <<>> /\ Head(s) = "-"
                  d == IF s # <<>> /\ Head(s) \in {"-", "+"} THEN Tail(s) ELSE s
              IN  IF d # <<>> /\ \A i \in 1..Len(d) : d[i] \in DigitAtoms
                  THEN Ok(IF neg THEN 0 - ParseDigits(d, 0) ELSE ParseDigits(d, 0))
                  ELSE Fail(Raise("ValueError", <<"invalid literal for int()">>, "")))
      [] OTHER -> Fail(Raise("TypeError", <<"int() argument must be a string or a number">>, ""))

Tabs(level) == [i \in 1..level |-> TAB]

\* dx_line(level, text): TAB * level + text + "\n"
dx_line(level, text) == Tabs(level) \o text \o <<NL>>


-----------------------------------------------------------------------------
(* difflib, as suggest_key uses it: SequenceMatcher(a = candidate, b = key)  *)
(* with no junk (autojunk only acts on sequences of 200 or more elements).   *)

\* length of the common run of a and b ending at a[i], b[j] that stays inside
\* a[alo..] and b[blo..] (the j2len table of find_longest_match)
RECURSIVE RunLen(_, _, _, _, _, _)
RunLen(a, b, i, j, alo, blo) ==
    IF i < alo \/ j < blo \/ a[i] # b[j] THEN 0
    ELSE 1 + RunLen(a, b, i - 1, j - 1, alo, blo)

\* find_longest_match(alo, ahi, blo, bhi) over a[alo..ahi-1], b[blo..bhi-1]:
\* the longest block; of those the one ending (so starting) earliest in a,
\* then in b.  klen[<<i, j>>] is the run ending at a[i], b[j].
longest_of(klen, alo, blo) ==
    LET ends == DOMAIN klen
        best == IF ends = {} THEN 0
                ELSE klen[CHOOSE e \in ends : \A f \in ends : klen[f] <= klen[e]]
        top == {e \in ends : klen[e] = best}
        e1 == CHOOSE e \in top : \A f \in top : e[1] < f[1] \/ (e[1] = f[1] /\ e[2] <= f[2])
    IN  IF best = 0 THEN <<alo, blo, 0>>
        ELSE <<e1[1] - best + 1, e1[2] - best + 1, best>>

find_longest_match(a, b, alo, ahi, blo, bhi) ==
    longest_of([e \in (alo..(ahi - 1)) \X (blo..(bhi - 1)) |->
                    RunLen(a, b, e[1], e[2], alo, blo)], alo, blo)

\* sum of the sizes of get_matching_blocks()
RECURSIVE MatchCount(_, _, _, _, _, _)
RECURSIVE MatchCountAround(_, _, _, _, _, _, _)
MatchCountAround(a, b, alo, ahi, blo, bhi, m) ==
    LET i == m[1]
        j == m[2]
        k == m[3]
    IN  IF k = 0 THEN 0
        ELSE k
             + (IF alo < i /\ blo < j THEN MatchCount(a, b, alo, i, blo, j) ELSE 0)
             + (IF i + k < ahi /\ j + k < bhi
                THEN MatchCount(a, b, i + k, ahi, j + k, bhi) ELSE 0)

MatchCount(a, b, alo, ahi, blo, bhi) ==
    MatchCountAround(a, b, alo, ahi, blo, bhi, find_longest_match(a, b, alo, ahi, blo, bhi))

\* a similarity is the fraction 2 * m / len, kept as <<2 * m, len>>;
\* _calculate_ratio returns 1.0 when len = 0
Frac(m, len) == IF len = 0 THEN <<1, 1>> ELSE <<2 * m, len>>
FracLess(p, q) == p[1] * q[2] < q[1] * p[2]
FracGeq(p, q) == ~FracLess(p, q)

\* SequenceMatcher.ratio()
ratio(a, b) == Frac(MatchCount(a, b, 1, Len(a) + 1, 1, Len(b) + 1), Len(a) + Len(b))

Occurrences(s, c) == Cardinality({i \in 1..Len(s) : s[i] = c})
Min(x, y) == IF x < y THEN x ELSE y

RECURSIVE SumOver(_, _, _)
SumOver(S, a, b) ==
    IF S = {} THEN 0
    ELSE LET c == CHOOSE x \in S : TRUE
         IN  Min(Occurrences(a, c), Occurrences(b, c)) + SumOver(S \ {c}, a, b)

\* SequenceMatcher.quick_ratio(): multiset intersection of the elements
quick_ratio(a, b) == Frac(SumOver({a[i] : i \in 1..Len(a)}, a, b), Len(a) + Len(b))

\* SequenceMatcher.real_quick_ratio(): from the lengths alone
real_quick_ratio(a, b) == Frac(Min(Len(a), Len(b)), Len(a) + Len(b))

UpperCase == <<"A", "B", "C", "D", "E", "F", "G", "H", "I", "J", "K", "L", "M",
               "N", "O", "P", "Q", "R", "S", "T", "U", "V", "W", "X", "Y", "Z">>
LowerCase == <<"a", "b", "c", "d", "e", "f", "g", "h", "i", "j", "k", "l", "m",
               "n", "o", "p", "q", "r", "s", "t", "u", "v", "w", "x", "y", "z">>

\* ord(c) of the characters enum keys are spelled with
CodePoint(c) ==
    IF \E i \in 1..26 : UpperCase[i] = c THEN 64 + (CHOOSE i \in 1..26 : UpperCase[i] = c)
    ELSE IF \E i \in 1..26 : LowerCase[i] = c THEN 96 + (CHOOSE i \in 1..26 : LowerCase[i] = c)
    ELSE IF c \in DigitAtoms THEN 48 + DigitVal(c)
    ELSE CASE c = NL -> 10 [] c = TAB -> 9 [] c = " " -> 32 [] c = "$" -> 36
           [] c = "{" -> 123 [] c = "}" -> 125 [] OTHER -> 0

\* Python str comparison x < y
RECURSIVE StrLess(_, _)
StrLess(x, y) ==
    IF y = <<>> THEN FALSE
    ELSE IF x = <<>> THEN TRUE
    ELSE IF Head(x) = Head(y) THEN StrLess(Tail(x), Tail(y))
    ELSE CodePoint(Head(x)) < CodePoint(Head(y))

\* (score[x], x) < (score[y], y) as Python compares the tuples
PairLess(x, y, score) ==
    \/ FracLess(score[x], score[y])
    \/ (~FracLess(score[y], score[x]) /\ StrLess(x, y))

\* heapq.nlargest(n, result): the words of the n largest (score, word) pairs,
\* largest first
RECURSIVE nlargest(_, _, _)
nlargest(n, words, score) ==
    IF n = 0 \/ words = {} THEN <<>>
    ELSE LET top == CHOOSE x \in words : \A y \in words \ {x} : PairLess(y, x, score)
         IN  <<top>> \o nlargest(n - 1, words \ {top}, score)

CUTOFF == <<6, 10>>     \* cutoff=0.6
NSUGGEST == 3           \* n=3

\* the words that pass the three ratio tests, best first
close_matches(key, candidates, score) ==
    nlargest(NSUGGEST,
             {x \in candidates :
                /\ FracGeq(real_quick_ratio(x, key), CUTOFF)
                /\ FracGeq(quick_ratio(x, key), CUTOFF)
                /\ FracGeq(score[x], CUTOFF)},
             score)

\* difflib.get_close_matches(key, candidates, n=3, cutoff=0.6)
get_close_matches(key, candidates) ==
    close_matches(key, candidates, [x \in candidates |-> ratio(x, key)])

\* ", ".join(words)
RECURSIVE Join(_)
Join(words) ==
    IF words = <<>> THEN <<>>
    ELSE IF Len(words) = 1 THEN words[1]
    ELSE words[1] \o <<", ">> \o Join(Tail(words))

\* lines 14-16 of suggest_key
suggestion(matches) ==
    IF matches # <<>> THEN <<" Did you mean: ">> \o Join(matches) \o <<" ?">>
    ELSE <<>>

\* suggest_key(key, candidates)
suggest_key(key, candidates) == suggestion(get_close_matches(key, candidates))

-----------------------------------------------------------------------------
(* The enum tables *)

Missing == [t |-> "missing", s |-> <<>>, n |-> 0, keys |-> <<>>, items |-> <<>>]
BadYaml == [t |-> "badyaml", s |-> <<>>, n |-> 0, keys |-> <<>>, items |-> <<>>]

EmptyMap == [k \in {} |-> <<>>]
MapPut(m, k, v) == [x \in (DOMAIN m) \cup {k} |-> IF x = k THEN v ELSE m[x]]

K_value == <<"value">>
K_tc == <<"tc">>

\* load_entries with a bare-string entry taken as it is in every language
RECURSIVE load_entries_bare_any_lang(_, _, _, _)
load_entries_bare_any_lang(d, lg, i, out) ==
    IF i > Len(d.keys) THEN Ok(out)
    ELSE
      LET k == d.keys[i]
          v == d.items[i]
      IN  IF IsStr(v)
          THEN load_entries_bare_any_lang(d, lg, i + 1, MapPut(out, k, v.s))
          ELSE IF IsDict(v) /\ Has(v, K_value) /\ IsDict(Get(v, K_value))
          THEN LET vv == Get(v, K_value)
               IN  IF Has(vv, lg) /\ IsStr(Get(vv, lg)) /\ ~IsBlank(Get(vv, lg).s)
                   THEN load_entries_bare_any_lang(d, lg, i + 1, MapPut(out, k, Get(vv, lg).s))
                   ELSE IF Has(vv, K_tc) /\ IsStr(Get(vv, K_tc)) /\ ~IsBlank(Get(vv, K_tc).s)
                   THEN load_entries_bare_any_lang(d, lg, i + 1, MapPut(out, k, Get(vv, K_tc).s))
                   ELSE Fail(Raise("ValueError", <<"Enum entry missing value (and no tc fallback)">>, ""))
          ELSE Fail(Raise("ValueError", <<"Invalid enum entry">>, ""))

\* the body of load_enum_map's loop for the entries i.. of data, out so far
RECURSIVE load_entries(_, _, _, _)
load_entries(d, lg, i, out) ==
    IF i > Len(d.keys) THEN Ok(out)
    ELSE
      LET k == d.keys[i]
          v == d.items[i]
      IN  IF IsStr(v)
          THEN IF lg # K_tc
               THEN Fail(Raise("ValueError", <<"Legacy enum entry only supports tc output">>, ""))
               ELSE load_entries(d, lg, i + 1, MapPut(out, k, v.s))
          ELSE IF IsDict(v) /\ Has(v, K_value) /\ IsDict(Get(v, K_value))
          THEN LET vv == Get(v, K_value)
               IN  IF Has(vv, lg) /\ IsStr(Get(vv, lg)) /\ ~IsBlank(Get(vv, lg).s)
                   THEN load_entries(d, lg, i + 1, MapPut(out, k, Get(vv, lg).s))
                   ELSE IF Has(vv, K_tc) /\ IsStr(Get(vv, K_tc)) /\ ~IsBlank(Get(vv, K_tc).s)
                   THEN load_entries(d, lg, i + 1, MapPut(out, k, Get(vv, K_tc).s))
                   ELSE Fail(Raise("ValueError", <<"Enum entry missing value (and no tc fallback)">>, ""))
          ELSE Fail(Raise("ValueError", <<"Invalid enum entry">>, ""))

\* load_enum_map(path, lang), file being what is stored at path
load_enum_map(file, lg) ==
    IF file.t = "missing" THEN Ok(EmptyMap)
    ELSE IF file.t = "badyaml" THEN Fail(Raise("YAMLError", <<"could not parse">>, ""))
    ELSE IF file.t = "none" THEN Ok(EmptyMap)
    ELSE IF ~IsDict(file) THEN Fail(Raise("ValueError", <<"Enum file must be a YAML mapping">>, ""))
    ELSE load_entries(file, lg, 1, EmptyMap)

Categories == <<"towns", "facilities", "characters", "gender", "faction_types">>
CoreFile(cat) == "enums/core/" \o cat \o ".yaml"
OldFile(cat) == "enums/" \o cat \o ".yaml"
EnumFiles == {CoreFile(Categories[i]) : i \in 1..Len(Categories)}
                \cup {OldFile(Categories[i]) : i \in 1..Len(Categories)}

\* the files load_enum_map(path) reads: path.read_text runs only if path.exists()
ReadOf(files, name) == IF files[name].t = "missing" THEN {} ELSE {name}

\* the table a with the keys of b it does not have added to it
MergedInto(a, b) ==
    IF ~b.ok THEN b
    ELSE Ok([k \in DOMAIN a.out \cup DOMAIN b.out |->
                IF k \in DOMAIN a.out THEN a.out[k] ELSE b.out[k]])

\* core_then_old with the legacy table read in every case and its keys
\* merged under those of the core table
core_then_old_merged(files, cat, lg, m) ==
    IF ~m.ok THEN [res |-> m, read |-> ReadOf(files, CoreFile(cat))]
    ELSE [res |-> MergedInto(m, load_enum_map(files[OldFile(cat)], lg)),
          read |-> ReadOf(files, CoreFile(cat)) \cup ReadOf(files, OldFile(cat))]

\* load_core_then_old(filename) once the core file is loaded as m:
\* [res: the table or the exception, read: the files read]
core_then_old(files, cat, lg, m) ==
    IF ~m.ok THEN [res |-> m, read |-> ReadOf(files, CoreFile(cat))]
    ELSE IF DOMAIN m.out # {} THEN [res |-> m, read |-> ReadOf(files, CoreFile(cat))]
    ELSE [res |-> load_enum_map(files[OldFile(cat)], lg),
          read |-> ReadOf(files, CoreFile(cat)) \cup ReadOf(files, OldFile(cat))]

\* load_core_then_old(filename)
load_core_then_old(files, cat, lg) ==
    core_then_old(files, cat, lg, load_enum_map(files[CoreFile(cat)], lg))

NoMaps == [c \in {} |-> EmptyMap]

\* EnumMaps.__init__ from category i on: the tables so far, the files read so far
RECURSIVE EnumMapsFrom(_, _, _, _, _)
RECURSIVE EnumMapsStep(_, _, _, _, _, _)
EnumMapsStep(files, lg, i, tables, read, r) ==
    IF ~r.res.ok
    THEN [ok |-> FALSE, out |-> NoMaps, err |-> r.res.err, read |-> read \cup r.read]
    ELSE EnumMapsFrom(files, lg, i + 1, MapPut(tables, Categories[i], r.res.out),
                      read \cup r.read)

EnumMapsFrom(files, lg, i, tables, read) ==
    IF i > Len(Categories) THEN [ok |-> TRUE, out |-> tables, err |-> NoErr, read |-> read]
    ELSE EnumMapsStep(files, lg, i, tables, read,
                      load_core_then_old(files, Categories[i], lg))

\* EnumMaps(repo_root, lang): the five tables, by attribute name
EnumMaps(files, lg) == EnumMapsFrom(files, lg, 1, NoMaps, {})

\* the value of the closest key, when there is one
closest_value(mapping, kind, k, path, matches) ==
    IF matches # <<>> THEN Ok(mapping[matches[1]])
    ELSE Fail(CompileError(<<"Unknown ", kind, " '">> \o k \o <<"'.">>, path))

\* map_find with an unknown key resolved to the closest key of the table
map_find_fuzzy(mapping, kind, k, path) ==
    IF k \in DOMAIN mapping THEN Ok(mapping[k])
    ELSE closest_value(mapping, kind, k, path, get_close_matches(k, DOMAIN mapping))

\* lines 121-127 of EnumMaps._map, k being str(key)
map_find(mapping, kind, k, path) ==
    IF k \in DOMAIN mapping THEN Ok(mapping[k])
    ELSE Fail(CompileError(<<"Unknown ", kind, " '">> \o k \o <<"'.">>
                           \o suggest_key(k, DOMAIN mapping), path))

\* EnumMaps._map(mapping, kind, key, input_file, path)
map_lookup(mapping, kind, key, path) == map_find(mapping, kind, PyStr(key), path)

\* EnumMaps.town / facility / character / gender_value / faction_type_value
town(m, key, path) == map_lookup(m["towns"], "town", key, path)
facility(m, key, path) == map_lookup(m["facilities"], "facility", key, path)
character(m, key, path) == map_lookup(m["characters"], "character", key, path)
gender_value(m, key, path) == map_lookup(m["gender"], "gender", key, path)
faction_type_value(m, key, path) == map_lookup(m["faction_types"], "faction_type", key, path)


-----------------------------------------------------------------------------
(* The literals of the output grammar.  ASCII stand-ins:                     *)
(*   "OR-CHECK:"  U+FF2F U+FF32 U+8ABF U+67E5 ":"   (line 147)               *)
(*   "AND-CHECK:" U+FF21 U+FF2E U+FF24 U+8ABF U+67E5 ":"   (line 149)        *)
(*   "CHECK:(STATUS::YEAR)", "CHECK:(STATUS::MONTH)"  (lines 148-151)        *)
(*   "CHECK:(PERSON::HERO.GENDER)==(", "CHECK:(PERSON::HERO.TASK)==(NONE)",  *)
(*   "CHECK:(PERSON::HERO.FACTION-TYPE)==(", "CHECK:(HERO.MONEY)>("          *)
(*                                                     (lines 184-195)       *)
(*   "NARRATION:" (211), "MONOLOGUE:" (215), "SAY:(" (228),                  *)
(*   "RENAME-SAY:(" (243), "CHOICE:(" (264), "BRANCH:(" (269)                *)
(*   "TAIKO5-EVENT-SOURCE" (310), "CHAPTER:" (311), "EVENT:" (312),          *)
(*   "ATTR:ONCE" (314), "OCCURS:INDOOR-SHOWN(" (315), "CONDITION:" (316),    *)
(*   "SCRIPT:" (319)                                                         *)
(* "[[" and "]]" are one atom each; "{", "}", "$", "\n", "\t" are characters.*)

\* emit_time_before_year_month(level, year, month)
emit_time_before_year_month(level, year, month) ==
    dx_line(level, <<"OR-CHECK:", "{">>)
    \o dx_line(level + 1, <<"CHECK:(STATUS::YEAR)", "<", "(">> \o IntText(year) \o <<")">>)
    \o dx_line(level + 1, <<"AND-CHECK:", "{">>)
    \o dx_line(level + 2, <<"CHECK:(STATUS::YEAR)", "==", "(">> \o IntText(year) \o <<")">>)
    \o dx_line(level + 2, <<"CHECK:(STATUS::MONTH)", "<", "(">> \o IntText(month) \o <<")">>)
    \o dx_line(level + 1, <<"}">>)
    \o dx_line(level, <<"}">>)

K_before_year_month == <<"before_year_month">>
K_year == <<"year">>
K_month == <<"month">>
K_gender == <<"gender">>
K_no_task == <<"no_task">>
K_faction_type == <<"faction_type">>
K_money_gt == <<"money_gt">>

\* the `if "before_year_month" in require:` block
require_before(require, out) ==
    IF ~Has(require, K_before_year_month) THEN Ok(out)
    ELSE Let(Get(require, K_before_year_month), LAMBDA bym :
         IF ~IsDict(bym)
         THEN Fail(CompileError(<<"'before_year_month' must be an object.">>,
                                "require.before_year_month"))
         ELSE IF ~Has(bym, K_year) \/ ~Has(bym, K_month)
         THEN Fail(CompileError(<<"before_year_month requires 'year' and 'month'.">>,
                                "require.before_year_month"))
         ELSE Bind(PyInt(Get(bym, K_year)), LAMBDA year :
              Bind(PyInt(Get(bym, K_month)), LAMBDA month :
              Ok(out \o emit_time_before_year_month(3, year, month)))))

\* the `if "gender" in require:` block
require_gender(require, m, out) ==
    IF ~Has(require, K_gender) THEN Ok(out)
    ELSE Bind(gender_value(m, Get(require, K_gender), "require.gender"), LAMBDA g :
         Ok(out \o dx_line(3, <<"CHECK:(PERSON::HERO.GENDER)==(">> \o g \o <<")">>)))

\* the `if require.get("no_task", False):` block
require_no_task(require, out) ==
    IF PyBool(GetOr(require, K_no_task, YBool(FALSE)))
    THEN Ok(out \o dx_line(3, <<"CHECK:(PERSON::HERO.TASK)==(NONE)">>))
    ELSE Ok(out)

\* the `if "faction_type" in require:` block
require_faction_type(require, m, out) ==
    IF ~Has(require, K_faction_type) THEN Ok(out)
    ELSE Bind(faction_type_value(m, Get(require, K_faction_type), "require.faction_type"),
              LAMBDA ft :
         Ok(out \o dx_line(3, <<"CHECK:(PERSON::HERO.FACTION-TYPE)==(">> \o ft \o <<")">>)))

\* the `if "money_gt" in require:` block
require_money_gt(require, out) ==
    IF ~Has(require, K_money_gt) THEN Ok(out)
    ELSE Bind(PyInt(Get(require, K_money_gt)), LAMBDA mg :
         Ok(out \o dx_line(3, <<"CHECK:(HERO.MONEY)>(">> \o IntText(mg) \o <<")">>)))

\* compile_require(require, maps, input_file)
compile_require(require, m) ==
    IF require.t = "none" THEN Ok(<<>>)
    ELSE IF ~IsDict(require) THEN Fail(CompileError(<<"'require' must be an object.">>, "require"))
    ELSE Bind(require_before(require, <<>>), LAMBDA o1 :
         Bind(require_gender(require, m, o1), LAMBDA o2 :
         Bind(require_no_task(require, o2), LAMBDA o3 :
         Bind(require_faction_type(require, m, o3), LAMBDA o4 :
         require_money_gt(require, o4)))))

-----------------------------------------------------------------------------
(* compile_script_block *)

K_narration == <<"narration">>
K_hero_think == <<"hero_think">>
K_say == <<"say">>
K_rename_say == <<"rename_say">>
K_choice == <<"choice">>
K_options == <<"options">>
K_label == <<"label">>
K_do == <<"do">>
K_speaker == <<"speaker">>
K_listener == <<"listener">>
K_surname == <<"surname">>
K_name == <<"name">>
K_text == <<"text">>

\* s.replace(c, "")
Remove(s, c) == SelectSeq(s, LAMBDA x : x # c)

\* "".join(f"[[{lb}]]" for lb in labels)
RECURSIVE JoinLabels(_)
JoinLabels(labels) ==
    IF labels = <<>> THEN <<>>
    ELSE <<"[[">> \o Head(labels) \o <<"]]">> \o JoinLabels(Tail(labels))

\* the first key of ks missing from d, or "" when none is
RECURSIVE FirstMissing(_, _)
FirstMissing(d, ks) ==
    IF ks = <<>> THEN <<>>
    ELSE IF ~Has(d, Head(ks)) THEN Head(ks)
    ELSE FirstMissing(d, Tail(ks))

\* the `elif "say" in cmd:` branch
compile_say(cmd, m, p, level) ==
    Let(Get(cmd, K_say), LAMBDA say :
    IF ~IsDict(say) THEN Fail(CompileError(<<"'say' must be an object.">>, p \o ".say"))
    ELSE Let(FirstMissing(say, <<K_speaker, K_listener, K_text>>), LAMBDA miss :
    IF miss # <<>>
    THEN Fail(CompileError(<<"Missing '">> \o miss \o <<"' in say.">>, p \o ".say." \o miss[1]))
    ELSE Bind(character(m, Get(say, K_speaker), p \o ".say.speaker"), LAMBDA sp :
         Bind(character(m, Get(say, K_listener), p \o ".say.listener"), LAMBDA ls :
         Let(PyStr(Get(say, K_text)), LAMBDA tx :
         Ok(dx_line(level, <<"SAY:(">> \o sp \o <<",">> \o ls \o <<")", "[[">>
                           \o tx \o <<"]]">>)))))))

\* the `elif "rename_say" in cmd:` branch
compile_rename_say(cmd, m, p, level) ==
    Let(Get(cmd, K_rename_say), LAMBDA rs :
    IF ~IsDict(rs)
    THEN Fail(CompileError(<<"'rename_say' must be an object.">>, p \o ".rename_say"))
    ELSE Let(FirstMissing(rs, <<K_speaker, K_listener, K_surname, K_name, K_text>>), LAMBDA miss :
    IF miss # <<>>
    THEN Fail(CompileError(<<"Missing '">> \o miss \o <<"' in rename_say.">>,
                           p \o ".rename_say." \o miss[1]))
    ELSE Bind(character(m, Get(rs, K_speaker), p \o ".rename_say.speaker"), LAMBDA sp :
         Bind(character(m, Get(rs, K_listener), p \o ".rename_say.listener"), LAMBDA ls :
         Ok(dx_line(level, <<"RENAME-SAY:(">> \o sp \o <<",">> \o ls
                           \o <<",", "[[">> \o PyStr(Get(rs, K_surname))
                           \o <<"]]", ",", "[[">> \o PyStr(Get(rs, K_name))
                           \o <<"]]", ")", "[[">> \o PyStr(Get(rs, K_text)) \o <<"]]">>))))))

OptionPath(p, oi) == p \o ".choice.options[" \o ToString(oi - 1) \o "]"

\* the first loop over the options (lines 254-262): the labels, or the first error
RECURSIVE collect_labels(_, _, _, _)
collect_labels(options, p, oi, labels) ==
    IF oi > Len(options) THEN Ok(labels)
    ELSE LET opt == options[oi]
             op == OptionPath(p, oi)
         IN  IF ~IsDict(opt) THEN Fail(CompileError(<<"Each option must be an object.">>, op))
             ELSE IF ~Has(opt, K_label)
             THEN Fail(CompileError(<<"Missing option.label">>, op \o ".label"))
             ELSE IF ~Has(opt, K_do)
             THEN Fail(CompileError(<<"Missing option.do">>, op \o ".do"))
             ELSE collect_labels(options, p, oi + 1, Append(labels, PyStr(Get(opt, K_label))))

RECURSIVE compile_script_block(_, _, _, _)
RECURSIVE compile_branches(_, _, _, _, _, _)
RECURSIVE compile_cmd(_, _, _, _)
RECURSIVE script_loop(_, _, _, _, _, _)

\* compile_branches with the body of a branch compiled at the level of the
\* choice itself
RECURSIVE compile_branches_same_level(_, _, _, _, _, _)
compile_branches_same_level(options, m, p, level, oi, out) ==
    IF oi > Len(options) THEN Ok(out)
    ELSE Bind(compile_script_block(Get(options[oi], K_do), m, OptionPath(p, oi) \o ".do",
                                   level),
              LAMBDA body :
         compile_branches_same_level(options, m, p, level, oi + 1,
             out \o dx_line(level, <<"BRANCH:(", "[[">> \o PyStr(Get(options[oi], K_label))
                                   \o <<"]]", ")", "{">>)
                 \o body
                 \o dx_line(level, <<"}">>)))

\* the second loop over the options (lines 266-271), from option oi on
compile_branches(options, m, p, level, oi, out) ==
    IF oi > Len(options) THEN Ok(out)
    ELSE Bind(compile_script_block(Get(options[oi], K_do), m, OptionPath(p, oi) \o ".do",
                                   level + 1),
              LAMBDA body :
         compile_branches(options, m, p, level, oi + 1,
             out \o dx_line(level, <<"BRANCH:(", "[[">> \o PyStr(Get(options[oi], K_label))
                                   \o <<"]]", ")", "{">>)
                 \o body
                 \o dx_line(level, <<"}">>)))

\* the `elif "choice" in cmd:` branch
compile_choice(cmd, m, p, level) ==
    Let(Get(cmd, K_choice), LAMBDA choice :
    IF ~IsDict(choice)
    THEN Fail(CompileError(<<"'choice' must be an object.">>, p \o ".choice"))
    ELSE IF ~Has(choice, K_options) \/ ~IsList(Get(choice, K_options))
    THEN Fail(CompileError(<<"choice.options must be a list.">>, p \o ".choice.options"))
    ELSE Bind(collect_labels(Get(choice, K_options).items, p, 1, <<>>), LAMBDA labels :
         compile_branches(Get(choice, K_options).items, m, p, level, 1,
                          dx_line(level, <<"CHOICE:(">> \o JoinLabels(labels) \o <<")">>))))

\* the body of the loop of compile_script_block for one entry cmd at path p:
\* the text it appends to out, or the error it raises
compile_cmd(cmd, m, p, level) ==
    IF ~IsDict(cmd) THEN Fail(CompileError(<<"Each script entry must be an object.">>, p))
    ELSE IF Has(cmd, K_narration)
    THEN Ok(dx_line(level, Remove(<<"NARRATION:", "[[", "$">> \o PyStr(Get(cmd, K_narration))
                                  \o <<"]]">>, "$")))
    ELSE IF Has(cmd, K_hero_think)
    THEN Ok(dx_line(level, Remove(<<"MONOLOGUE:", "[[", "$">> \o PyStr(Get(cmd, K_hero_think))
                                  \o <<"]]">>, "$")))
    ELSE IF Has(cmd, K_say) THEN compile_say(cmd, m, p, level)
    ELSE IF Has(cmd, K_rename_say) THEN compile_rename_say(cmd, m, p, level)
    ELSE IF Has(cmd, K_choice) THEN compile_choice(cmd, m, p, level)
    ELSE Fail(CompileError(<<"Unknown script command. Expected one of: ",
                             "narration, hero_think, say, rename_say, choice">>, p))

\* `for i, cmd in enumerate(script):` from entry i on (1-based here, 0-based in p)
script_loop(cmds, m, base_path, level, i, out) ==
    IF i > Len(cmds) THEN Ok(out)
    ELSE Bind(compile_cmd(cmds[i], m, base_path \o "[" \o ToString(i - 1) \o "]", level),
              LAMBDA text :
         script_loop(cmds, m, base_path, level, i + 1, out \o text))

\* compile_script_block(script, maps, input_file, base_path, level)
compile_script_block(script, m, base_path, level) ==
    IF ~IsList(script) THEN Fail(CompileError(<<"Script block must be a list.">>, base_path))
    ELSE script_loop(script.items, m, base_path, level, 1, <<>>)

-----------------------------------------------------------------------------
(* generate_event *)

K_event_name == <<"event_name">>
K_trigger == <<"trigger">>
K_town == <<"town">>
K_location == <<"location">>
K_facility == <<"facility">>
K_once == <<"once">>
K_require == <<"require">>
K_script == <<"script">>

\* lines 309-324: the envelope around the two compiled blocks
assemble(event_name, once, town_v, facility_v, require_block, script_block) ==
    <<"TAIKO5-EVENT-SOURCE", NL>>
    \o <<"CHAPTER:", "{", NL>>
    \o dx_line(1, <<"EVENT:">> \o event_name \o <<"{">>)
    \o (IF once THEN dx_line(2, <<"ATTR:ONCE">>) ELSE <<>>)
    \o dx_line(2, <<"OCCURS:INDOOR-SHOWN(">> \o town_v \o <<",">> \o facility_v \o <<")">>)
    \o dx_line(2, <<"CONDITION:", "{">>)
    \o require_block
    \o dx_line(2, <<"}">>)
    \o dx_line(2, <<"SCRIPT:", "{">>)
    \o script_block
    \o dx_line(2, <<"}">>)
    \o dx_line(1, <<"}">>)
    \o <<"}", NL>>

\* lines 292-296: the checks of the trigger
check_trigger(trigger) ==
    IF ~IsDict(trigger)
    THEN Fail(CompileError(<<"'trigger' must be an object.">>, "trigger"))
    ELSE IF ~Has(trigger, K_town) \/ ~Has(trigger, K_facility)
    THEN Fail(CompileError(<<"trigger requires 'town' and 'facility'.">>, "trigger"))
    ELSE Ok(trigger)

\* generate_event(data, maps, input_file)
generate_event(d, m) ==
    IF ~IsDict(d) THEN Fail(CompileError(<<"Root YAML must be an object.">>, "$"))
    ELSE IF ~Has(d, K_event_name)
    THEN Fail(CompileError(<<"Missing required field 'event_name'.">>, "event_name"))
    ELSE IF ~Has(d, K_trigger)
    THEN Fail(CompileError(<<"Missing required field 'trigger'.">>, "trigger"))
    ELSE Bind(check_trigger(Get(d, K_trigger)), LAMBDA trigger :
         Bind(town(m, Get(trigger, K_town), "trigger.town"), LAMBDA town_v :
         Bind(facility(m, Get(trigger, K_facility), "trigger.facility"), LAMBDA facility_v :
         Bind(compile_require(GetOr(d, K_require, YNone), m), LAMBDA require_block :
         Bind(compile_script_block(GetOr(d, K_script, YList(<<>>)), m, "script", 3),
              LAMBDA script_block :
         Ok(assemble(PyStr(Get(d, K_event_name)), PyBool(GetOr(d, K_once, YBool(TRUE))),
                     town_v, facility_v, require_block, script_block)))))))

-----------------------------------------------------------------------------
(* main() *)

Unset == <<"<unset>">>
NoFile == [state |-> "absent", content |-> <<>>]

\* what the operating system can do with output_path.write_text: write the
\* file, fail before the file is opened, or fail after it was opened (created
\* empty) and before the text is in it
DiskOutcomes == {"ok", "fail_open", "fail_write"}

\* lines 327-329
MainUsage ==
    /\ pc = "start"
    /\ argc # 3
    /\ pc' = "exited"
    /\ exitcode' = 1
    /\ UNCHANGED <<argc, fs, lang, input, disk, maps, data, dx_script, outfile,
                   err, failedAt, readLog, call, ret>>

\* the assignment of line 337 or the exception it raises, r being what
\* EnumMaps(repo_root, lang=DEFAULT_LANG) does
EnumsLoaded(r) ==
    /\ readLog' = r.read
    /\ IF r.ok
       THEN /\ maps' = r.out
            /\ pc' = "enums_loaded"
            /\ UNCHANGED <<err, failedAt>>
       ELSE /\ err' = r.err
            /\ failedAt' = "enums"
            /\ pc' = "except"
            /\ UNCHANGED maps

\* line 337: maps = EnumMaps(repo_root, lang=DEFAULT_LANG)
MainLoadEnums ==
    /\ pc = "start"
    /\ argc = 3
    /\ EnumsLoaded(EnumMaps(fs, DEFAULT_LANG))
    /\ UNCHANGED <<argc, fs, lang, input, disk, data, dx_script, outfile, exitcode, call, ret>>

\* line 339: data = yaml.safe_load(input_path.read_text(encoding="utf-8"))
MainReadInput ==
    /\ pc = "enums_loaded"
    /\ IF input.t = "missing"
       THEN /\ err' = Raise("FileNotFoundError", <<"No such file or directory">>, "")
            /\ failedAt' = "read"
            /\ pc' = "except"
            /\ UNCHANGED data
       ELSE IF input.t = "badyaml"
       THEN /\ err' = Raise("YAMLError", <<"could not parse">>, "")
            /\ failedAt' = "read"
            /\ pc' = "except"
            /\ UNCHANGED data
       ELSE /\ data' = input
            /\ pc' = "input_read"
            /\ UNCHANGED <<err, failedAt>>
    /\ UNCHANGED <<argc, fs, lang, input, disk, maps, dx_script, outfile, exitcode,
                   readLog, call, ret>>

\* the assignment of line 340 or the exception it raises, r being what
\* generate_event(data, maps, input_file=input_file) does
Generated(r) ==
    IF r.ok
    THEN /\ dx_script' = r.out
         /\ pc' = "generated"
         /\ UNCHANGED <<err, failedAt>>
    ELSE /\ err' = r.err
         /\ failedAt' = "generate"
         /\ pc' = "except"
         /\ UNCHANGED dx_script

\* MainGenerate with the output file opened for writing before the event is
\* compiled
MainGenerate_OutputOpenedFirst ==
    /\ pc = "input_read"
    /\ outfile' = [state |-> "created", content |-> <<>>]
    /\ Generated(generate_event(data, maps))
    /\ UNCHANGED <<argc, fs, lang, input, disk, maps, data, exitcode, readLog, call, ret>>

\* line 340: dx_script = generate_event(data, maps, input_file=input_file)
MainGenerate ==
    /\ pc = "input_read"
    /\ Generated(generate_event(data, maps))
    /\ UNCHANGED <<argc, fs, lang, input, disk, maps, data, outfile, exitcode,
                   readLog, call, ret>>

\* lines 343-344: mkdir of the parent, then output_path.write_text(dx_script)
MainWrite ==
    /\ pc = "generated"
    /\ \E d \in DiskOutcomes :
         /\ disk' = d
         /\ IF d = "ok"
            THEN /\ outfile' = [state |-> "written", content |-> dx_script]
                 /\ pc' = "written"
                 /\ UNCHANGED <<err, failedAt>>
            ELSE /\ outfile' = IF d = "fail_write"
                               THEN [state |-> "created", content |-> <<>>]
                               ELSE outfile
                 /\ err' = Raise("OSError", <<"cannot write">>, "")
                 /\ failedAt' = "write"
                 /\ pc' = "except"
    /\ UNCHANGED <<argc, fs, lang, input, maps, data, dx_script, exitcode, readLog, call, ret>>

\* line 346, then main returns: the interpreter exits with code 0
MainPrintGenerated ==
    /\ pc = "written"
    /\ pc' = "exited"
    /\ exitcode' = 0
    /\ UNCHANGED <<argc, fs, lang, input, disk, maps, data, dx_script, outfile,
                   err, failedAt, readLog, call, ret>>

\* lines 348-350
MainExceptCompileError ==
    /\ pc = "except"
    /\ err.type = "CompileError"
    /\ pc' = "exited"
    /\ exitcode' = 2
    /\ UNCHANGED <<argc, fs, lang, input, disk, maps, data, dx_script, outfile,
                   err, failedAt, readLog, call, ret>>

\* lines 351-353
MainExceptOther ==
    /\ pc = "except"
    /\ err.type # "CompileError"
    /\ pc' = "exited"
    /\ exitcode' = 3
    /\ UNCHANGED <<argc, fs, lang, input, disk, maps, data, dx_script, outfile,
                   err, failedAt, readLog, call, ret>>


-----------------------------------------------------------------------------
(* The inputs enumerated *)

Absent == [t |-> "absent", s |-> <<>>, n |-> 0, keys |-> <<>>, items |-> <<>>]

\* the dict with the keys ks and values vs, leaving out the Absent ones
RECURSIVE MkDictFrom(_, _, _, _)
MkDictFrom(ks, vs, i, d) ==
    IF i > Len(ks) THEN d
    ELSE IF vs[i] = Absent THEN MkDictFrom(ks, vs, i + 1, d)
    ELSE MkDictFrom(ks, vs, i + 1, YDict(Append(d.keys, ks[i]), Append(d.items, vs[i])))
MkDict(ks, vs) == MkDictFrom(ks, vs, 1, YDict(<<>>, <<>>))

\* a structured enum entry {value: {tc: .., sc: ..}, comment: ..}
Entry(tc, sc) ==
    YDict(<<K_value, <<"comment">>>>,
          <<MkDict(<<K_tc, <<"sc">>>>, <<tc, sc>>), YStr(<<"note">>)>>)

Kyoto == <<"K", "y", "o", "t", "o">>
Kyoho == <<"K", "y", "o", "h", "o">>
Inn == <<"I", "n", "n">>
Hero == <<"H", "e", "r", "o">>
Oda == <<"O", "d", "a">>
Male == <<"M", "a", "l", "e">>
Ronin == <<"R", "o", "n", "i", "n">>

TownsCore == YDict(<<Kyoto>>, <<Entry(YStr(<<"TOWN-KYOTO">>), YStr(<<>>))>>)
TownsOld == YDict(<<Kyoto, Kyoho>>, <<YStr(<<"OLD-KYOTO">>), YStr(<<"OLD-KYOHO">>)>>)
FacilitiesCore == YDict(<<Inn>>, <<Entry(YStr(<<"FACILITY-INN">>), Absent)>>)
CharactersCore == YDict(<<Hero, Oda>>, <<YStr(<<"NAME-HERO">>), Entry(YStr(<<"NAME-ODA">>), Absent)>>)
GenderCore == YDict(<<Male>>, <<YStr(<<"GENDER-MALE">>)>>)
FactionTypesOld == YDict(<<Ronin>>, <<YStr(<<"FACTION-RONIN">>)>>)

FsOf(towns, townsOld, characters) ==
    [f \in EnumFiles |->
        CASE f = CoreFile("towns") -> towns
          [] f = OldFile("towns") -> townsOld
          [] f = CoreFile("facilities") -> FacilitiesCore
          [] f = CoreFile("characters") -> characters
          [] f = CoreFile("gender") -> GenderCore
          [] f = OldFile("faction_types") -> FactionTypesOld
          [] OTHER -> Missing]

FsGood == FsOf(TownsCore, TownsOld, CharactersCore)
MainFs == {FsGood,
           FsOf(Missing, TownsOld, CharactersCore),
           FsOf(TownsCore, Missing, YDict(<<Hero>>, <<YInt(1)>>)),
           FsOf(YNone, Missing, CharactersCore)}

TextAlphabet == {"a", "$", NL, "}"}
Texts == UNION {[1..n -> TextAlphabet] : n \in 0..MaxTextLen}

Narration(t) == YDict(<<K_narration>>, <<t>>)
HeroThink(t) == YDict(<<K_hero_think>>, <<t>>)
Say(sp, ls, tx) == YDict(<<K_say>>, <<MkDict(<<K_speaker, K_listener, K_text>>, <<sp, ls, tx>>)>>)
RenameSay(sp, ls, sn, nm, tx) ==
    YDict(<<K_rename_say>>,
          <<MkDict(<<K_speaker, K_listener, K_surname, K_name, K_text>>, <<sp, ls, sn, nm, tx>>)>>)
Option(lb, do) == MkDict(<<K_label, K_do>>, <<lb, do>>)
Choice(opts) == YDict(<<K_choice>>, <<YDict(<<K_options>>, <<YList(opts)>>)>>)

MainNames == {Absent, YStr(<<"e">>), YStr(<<"e", NL>>)}
MainTriggers ==
    {Absent, YStr(<<"x">>),
     MkDict(<<K_town, K_facility>>, <<YStr(Kyoto), YStr(<<"I", "n">>)>>)}
    \cup {MkDict(<<K_town, K_location, K_facility>>, <<t, l, f>>) :
            t \in {Absent, YStr(Kyoto), YStr(Kyoho)},
            l \in {Absent, YStr(Kyoto)},
            f \in {Absent, YStr(Inn)}}
MainOnce == {Absent, YBool(FALSE)}
MainRequires ==
    {Absent, YStr(<<"x">>),
     MkDict(<<K_before_year_month>>, <<MkDict(<<K_year, K_month>>, <<YInt(1560), YInt(6)>>)>>),
     MkDict(<<K_before_year_month>>, <<MkDict(<<K_year, K_month>>, <<YInt(1560), Absent>>)>>),
     MkDict(<<K_gender, K_no_task, K_faction_type>>, <<YStr(Male), YBool(TRUE), YStr(Ronin)>>),
     MkDict(<<K_gender>>, <<YStr(<<"M", "a", "l">>)>>),
     MkDict(<<K_money_gt>>, <<YInt(100)>>),
     MkDict(<<K_money_gt>>, <<YStr(<<"x">>)>>)}
MainScripts ==
    {Absent, YStr(<<"x">>),
     YList(<<Narration(YStr(<<"a">>)), HeroThink(YStr(<<"$", "a">>))>>),
     YList(<<Narration(YStr(<<NL, "}", NL>>))>>),
     YList(<<Say(YStr(Hero), YStr(Oda), YStr(<<"a">>)),
             RenameSay(YStr(Oda), YStr(Hero), YStr(<<"s">>), YStr(<<"n">>), YStr(<<"a">>))>>),
     YList(<<Say(YStr(Hero), YStr(<<"O", "d">>), YStr(<<"a">>))>>),
     YList(<<Choice(<<Option(YStr(<<"y">>),
                            YList(<<Choice(<<Option(YStr(<<"p">>), YList(<<>>)),
                                             Option(YStr(<<"q">>),
                                                    YList(<<Narration(YStr(<<"a">>))>>))>>)>>)),
                      Option(YStr(<<"n">>), YList(<<HeroThink(YStr(<<"a">>))>>))>>)>>),
     YList(<<Choice(<<>>)>>),
     YList(<<YDict(<<<<"bgm">>>>, <<YStr(<<"a">>)>>)>>)}

MainDocs ==
    {MkDict(<<K_event_name, K_trigger, K_once, K_require, K_script>>, <<n, t, o, r, sc>>) :
        n \in MainNames, t \in MainTriggers, o \in MainOnce, r \in MainRequires,
        sc \in MainScripts}

BaseDoc ==
    MkDict(<<K_event_name, K_trigger>>,
           <<YStr(<<"e">>), MkDict(<<K_town, K_facility>>, <<YStr(Kyoto), YStr(Inn)>>)>>)

MainInputs == MainDocs \cup {Missing, BadYaml, YNone, YList(<<>>)}

-----------------------------------------------------------------------------
(* The run of main() *)

Init ==
    /\ pc = "start"
    /\ \/ /\ argc = 3
          /\ \/ fs = FsGood /\ input \in MainInputs
             \/ fs \in MainFs /\ input = BaseDoc
       \/ /\ argc = 2
          /\ fs = FsGood
          /\ input = BaseDoc
    /\ lang = DEFAULT_LANG
    /\ disk = "untried"
    /\ maps = NoMaps
    /\ data = YNone
    /\ dx_script = Unset
    /\ outfile = NoFile
    /\ exitcode = -1
    /\ err = NoErr
    /\ failedAt = "none"
    /\ readLog = {}
    /\ call = <<>>
    /\ ret = <<>>

Next ==
    \/ MainUsage
    \/ MainLoadEnums
    \/ MainReadInput
    \/ MainGenerate
    \/ MainWrite
    \/ MainPrintGenerated
    \/ MainExceptCompileError
    \/ MainExceptOther

Spec == Init /\ [][Next]_vars


-----------------------------------------------------------------------------
(* compile_script_block applied to one script at one indent level *)

NoResult == [ok |-> FALSE, out |-> <<>>, err |-> NoErr]
GoodMaps == EnumMaps(FsGood, DEFAULT_LANG).out

\* the values a text field is given: strings, and scalars that str() converts
TextValues == {YStr(t) : t \in Texts} \cup {YInt(7), YNone}

LeafNodes ==
    {Narration(v) : v \in TextValues} \cup {HeroThink(v) : v \in TextValues}
    \cup {Say(YStr(Hero), YStr(Oda), YStr(<<"a">>)),
          Say(YStr(Hero), YStr(<<"O", "d">>), YStr(<<"a">>)),
          RenameSay(YStr(Oda), YStr(Hero), YStr(<<"s">>), YStr(<<"n">>), YStr(<<"a">>)),
          YDict(<<<<"bgm">>>>, <<YStr(<<"a">>)>>),
          YStr(<<"x">>)}

ShallowBodies == {YList(<<>>), YList(<<Narration(YStr(<<"a">>))>>)}
Labels == {YStr(<<"y">>), YStr(<<"$">>)}
BadOptions ==
    {YStr(<<"o">>), Option(Absent, YList(<<>>)), Option(YStr(<<"y">>), Absent),
     Option(YStr(<<"y">>), YStr(<<"x">>))}

\* the i-th option of a list when it is not the one that nests further:
\* its label is its position, its body is empty at the even positions
ShallowOption(i) ==
    Option(YStr(<<ToString(i)>>),
           IF i % 2 = 0 THEN YList(<<>>) ELSE YList(<<Narration(YStr(<<"a">>))>>))

\* the option lists of at most MaxOptions options in which one option (any
\* position) has a body of nesting depth below d, or is malformed, and the
\* others are shallow
RECURSIVE OptLists(_)
Bodies(d) ==
    IF d = 0 THEN ShallowBodies
    ELSE ShallowBodies \cup {YList(<<Choice(ol)>>) : ol \in OptLists(d)}
OptLists(d) ==
    {<<>>} \cup
    UNION {{[i \in 1..n |-> IF i = j THEN o ELSE ShallowOption(i)] :
                o \in {Option(l, b) : l \in Labels, b \in Bodies(d - 1)} \cup BadOptions,
                j \in 1..n} :
           n \in 1..MaxOptions}

ScriptInputs ==
    {YList(<<n>>) : n \in LeafNodes}
    \cup {YList(<<Choice(ol)>>) : ol \in OptLists(MaxDepth)}
    \cup {YList(<<Narration(YStr(<<"a">>)), Choice(ol), HeroThink(YStr(<<"a">>))>>) :
            ol \in OptLists(1)}
    \cup {YStr(<<"x">>), YList(<<>>),
          YList(<<YDict(<<K_choice>>, <<YStr(<<"x">>)>>)>>),
          YList(<<YDict(<<K_choice>>, <<YDict(<<>>, <<>>)>>)>>)}

InitScript ==
    /\ pc = "call"
    /\ call \in {[script |-> sc, level |-> l] : sc \in ScriptInputs, l \in 0..MaxLevel}
    /\ ret = NoResult
    /\ maps = GoodMaps
    /\ argc = 3
    /\ fs = FsGood
    /\ lang = DEFAULT_LANG
    /\ input = YNone
    /\ disk = "untried"
    /\ data = YNone
    /\ dx_script = Unset
    /\ outfile = NoFile
    /\ exitcode = -1
    /\ err = NoErr
    /\ failedAt = "none"
    /\ readLog = {}

\* compile_script_block(call.script, maps, input_file, "script", call.level)
CompileScriptBlock ==
    /\ pc = "call"
    /\ ret' = compile_script_block(call.script, maps, "script", call.level)
    /\ pc' = "returned"
    /\ UNCHANGED <<argc, fs, lang, input, disk, maps, data, dx_script, outfile,
                   exitcode, err, failedAt, readLog, call>>

NextScript == CompileScriptBlock

SpecScript == InitScript /\ [][NextScript]_vars


-----------------------------------------------------------------------------
(* load_enum_map applied to one enum file in one language *)

LoadLangs == {K_tc, <<"sc">>, <<"jp">>}

\* what an enum file gives for a key: a bare string, a structured entry
\* with or without each language, or something that is neither
TcValues == {Absent, YStr(<<>>), YStr(<<"T">>), YInt(1)}
ScValues == {Absent, YStr(<<>>), YStr(<<" ">>), YStr(<<"S">>)}
EntryValues ==
    {YStr(<<>>), YStr(<<"A">>)}
    \cup {Entry(tc, sc) : tc \in TcValues, sc \in ScValues}
    \cup {YInt(3), YDict(<<<<"comment">>>>, <<YStr(<<"note">>)>>),
          YDict(<<K_value>>, <<YStr(<<"T">>)>>)}

EntryKey(i) == <<"k", ToString(i)>>

LoadFiles ==
    {Missing, BadYaml, YNone, YList(<<>>)}
    \cup UNION {{YDict([i \in 1..n |-> EntryKey(i)], vs) : vs \in [1..n -> EntryValues]}
                : n \in 0..MaxEntries}

InitLoad ==
    /\ pc = "call"
    /\ call \in {[file |-> f, lang |-> lg] : f \in LoadFiles, lg \in LoadLangs}
    /\ ret = NoResult
    /\ maps = NoMaps
    /\ argc = 3
    /\ fs = FsGood
    /\ lang = DEFAULT_LANG
    /\ input = YNone
    /\ disk = "untried"
    /\ data = YNone
    /\ dx_script = Unset
    /\ outfile = NoFile
    /\ exitcode = -1
    /\ err = NoErr
    /\ failedAt = "none"
    /\ readLog = {}

\* load_enum_map(path, lang=call.lang), call.file being what is at path
LoadEnumMap ==
    /\ pc = "call"
    /\ ret' = load_enum_map(call.file, call.lang)
    /\ pc' = "returned"
    /\ UNCHANGED <<argc, fs, lang, input, disk, maps, data, dx_script, outfile,
                   exitcode, err, failedAt, readLog, call>>

NextLoad == LoadEnumMap

SpecLoad == InitLoad /\ [][NextLoad]_vars

-----------------------------------------------------------------------------
(* EnumMaps(repo_root, lang) built over one tree of enum files *)

\* what the core file of a category may hold
CoreOptions ==
    {Missing, YNone, YDict(<<>>, <<>>), BadYaml, YList(<<>>),
     YDict(<<Kyoto>>, <<YStr(<<"CORE-KYOTO">>)>>),
     YDict(<<Kyoto>>, <<Entry(YStr(<<"CORE-KYOTO">>), YStr(<<"SC-KYOTO">>))>>),
     YDict(<<Kyoto, Inn>>, <<Entry(YStr(<<"CORE-KYOTO">>), Absent), YInt(1)>>)}

\* what the legacy file of a category may hold
OldOptions ==
    {Missing, YDict(<<>>, <<>>), BadYaml, TownsOld,
     YDict(<<Kyoho>>, <<Entry(YStr(<<"OLD-KYOHO">>), YStr(<<"SC-KYOHO">>))>>)}

\* the tree base with the two files of category cat replaced
FsWith(base, cat, core, old) ==
    [f \in EnumFiles |->
        IF f = CoreFile(cat) THEN core ELSE IF f = OldFile(cat) THEN old ELSE base[f]]

\* a tree of which the enum files hold structured entries only
FsStructured ==
    [f \in EnumFiles |->
        IF f = CoreFile("towns") THEN TownsCore
        ELSE IF f = CoreFile("facilities") THEN FacilitiesCore
        ELSE IF f = OldFile("gender")
             THEN YDict(<<Male>>, <<Entry(YStr(<<"GENDER-MALE">>), Absent)>>)
        ELSE Missing]

RegistryFs ==
    {FsWith(base, Categories[i], core, old) :
        base \in {FsGood, FsStructured}, i \in 1..Len(Categories),
        core \in CoreOptions, old \in OldOptions}

InitRegistry ==
    /\ pc = "call"
    /\ fs \in RegistryFs
    /\ lang \in {K_tc, <<"sc">>}
    /\ call = <<>>
    /\ ret = NoResult
    /\ maps = NoMaps
    /\ argc = 3
    /\ input = YNone
    /\ disk = "untried"
    /\ data = YNone
    /\ dx_script = Unset
    /\ outfile = NoFile
    /\ exitcode = -1
    /\ err = NoErr
    /\ failedAt = "none"
    /\ readLog = {}

\* the registry built, or the exception raised, r being what EnumMaps does
RegistryBuilt(r) ==
    /\ maps' = r.out
    /\ readLog' = r.read
    /\ ret' = [ok |-> r.ok, out |-> <<>>, err |-> r.err]

\* EnumMaps(repo_root, lang)
BuildEnumMaps ==
    /\ pc = "call"
    /\ RegistryBuilt(EnumMaps(fs, lang))
    /\ pc' = "returned"
    /\ UNCHANGED <<argc, fs, lang, input, disk, data, dx_script, outfile,
                   exitcode, err, failedAt, call>>

NextRegistry == BuildEnumMaps

SpecRegistry == InitRegistry /\ [][NextRegistry]_vars

-----------------------------------------------------------------------------
(* EnumMaps._map applied to one table and one key *)

\* the keys the tables are made of
KeyPool ==
    {<<"a", "b">>, <<"a", "b", "a">>, <<"a", "b", "b">>, <<"b", "a", "b">>,
     <<"A", "b">>, <<"a", "a">>, <<"b">>, <<"b", "b", "a">>}

LookupTables ==
    {[k \in ks |-> <<"V-">> \o k] : ks \in {x \in SUBSET KeyPool : Cardinality(x) <= MaxKeys}}

LookupKeys == UNION {[1..n -> {"a", "b", "A"}] : n \in 0..MaxKeyLen}

InitLookup ==
    /\ pc = "call"
    /\ call \in {[mapping |-> m, kind |-> kd, key |-> k] :
                    m \in LookupTables, kd \in {"town"}, k \in LookupKeys}
    /\ ret = NoResult
    /\ maps = NoMaps
    /\ argc = 3
    /\ fs = FsGood
    /\ lang = DEFAULT_LANG
    /\ input = YNone
    /\ disk = "untried"
    /\ data = YNone
    /\ dx_script = Unset
    /\ outfile = NoFile
    /\ exitcode = -1
    /\ err = NoErr
    /\ failedAt = "none"
    /\ readLog = {}

\* self._map(call.mapping, call.kind, call.key, input_file=.., path="trigger.town")
MapLookup ==
    /\ pc = "call"
    /\ ret' = map_lookup(call.mapping, call.kind, YStr(call.key), "trigger.town")
    /\ pc' = "returned"
    /\ UNCHANGED <<argc, fs, lang, input, disk, maps, data, dx_script, outfile,
                   exitcode, err, failedAt, readLog, call>>

NextLookup == MapLookup

SpecLookup == InitLookup /\ [][NextLookup]_vars

-----------------------------------------------------------------------------
(* Properties of a run of main(), checked under Spec *)

\* generate_event has been called and has returned or raised
AfterGenerate == dx_script # Unset \/ failedAt = "generate"

\* C1: when loading the enum tables, reading the input or generate_event
\* fails, the output file is never created and no event text is held; the
\* output file is touched only once generate_event has returned the complete
\* text of the event, and what is written is that text.
C1_NoOutputUnlessGenerated ==
    /\ failedAt \in {"enums", "read", "generate"} => outfile = NoFile /\ dx_script = Unset
    /\ outfile # NoFile =>
          /\ pc \in {"written", "except", "exited"}
          /\ dx_script # Unset
          /\ generate_event(data, maps) = Ok(dx_script)
    /\ outfile.state = "written" => outfile.content = dx_script

\* a run whose compilation failed and that has exited, leaving no output
C1_Witness ==
    /\ pc = "exited"
    /\ failedAt = "generate"
    /\ exitcode = 2
    /\ err.path = "script[0].say.listener"
    /\ outfile = NoFile

\* the lines of a text: the runs of atoms between line feeds
RECURSIVE SplitLines(_, _)
SplitLines(text, cur) ==
    IF text = <<>> THEN (IF cur = <<>> THEN <<>> ELSE <<cur>>)
    ELSE IF Head(text) = NL THEN <<cur>> \o SplitLines(Tail(text), <<>>)
    ELSE SplitLines(Tail(text), Append(cur, Head(text)))

RECURSIVE LeadingTabs(_)
LeadingTabs(line) ==
    IF line # <<>> /\ Head(line) = TAB THEN 1 + LeadingTabs(Tail(line)) ELSE 0

OpensBlock(line) == line # <<>> /\ line[Len(line)] = "{"
ClosesBlock(line) == SubSeq(line, LeadingTabs(line) + 1, Len(line)) = <<"}">>

\* reading the lines from the i-th on with the indents of the open blocks in
\* stack: every closing line closes the innermost open block and has its
\* indent, and no block is left open at the end
RECURSIVE Balanced(_, _, _)
Balanced(lines, i, stack) ==
    IF i > Len(lines) THEN stack = <<>>
    ELSE IF OpensBlock(lines[i])
    THEN Balanced(lines, i + 1, <<LeadingTabs(lines[i])>> \o stack)
    ELSE IF ClosesBlock(lines[i])
    THEN /\ stack # <<>>
         /\ Head(stack) = LeadingTabs(lines[i])
         /\ Balanced(lines, i + 1, Tail(stack))
    ELSE Balanced(lines, i + 1, stack)

\* C3: the text of every event that compiles is brace-balanced: line by line
\* the count of open blocks never drops below zero and ends at zero, and
\* every closing line has the indent of the line that opened its block.
C3_BraceBalanced ==
    dx_script # Unset => Balanced(SplitLines(dx_script, <<>>), 1, <<>>)

\* the document is an object with an event name and an object-valued trigger
HasNameAndTrigger(d) ==
    /\ IsDict(d)
    /\ Has(d, K_event_name)
    /\ Has(d, K_trigger)
    /\ IsDict(Get(d, K_trigger))

\* C4: a document with an event name and an object-valued trigger that has
\* no 'facility' key fails with a compile error whose path is exactly
\* "trigger.facility", and nothing is written.
C4_MissingFacilityPath ==
    (AfterGenerate /\ HasNameAndTrigger(data) /\ ~Has(Get(data, K_trigger), K_facility))
        => /\ failedAt = "generate"
           /\ err.type = "CompileError"
           /\ err.path = "trigger.facility"
           /\ outfile = NoFile

\* the trigger with its 'location' key renamed to the legacy 'town'
RECURSIVE RenameKey(_, _, _)
RenameKey(ks, from, to) ==
    IF ks = <<>> THEN <<>>
    ELSE <<IF Head(ks) = from THEN to ELSE Head(ks)>> \o RenameKey(Tail(ks), from, to)

WithLegacyTown(d) ==
    LET tr == Get(d, K_trigger)
        i == CHOOSE k \in 1..Len(d.keys) : d.keys[k] = K_trigger
    IN  [d EXCEPT !.items[i] = YDict(RenameKey(tr.keys, K_location, K_town), tr.items)]

\* C5: a trigger that gives the location under 'location' (with 'facility',
\* without 'town') is handled exactly as the same trigger with the legacy
\* 'town' key: it is not rejected for a missing location, and the event
\* compiles to the same text.
C5_LocationKeyAccepted ==
    (/\ AfterGenerate
     /\ HasNameAndTrigger(data)
     /\ Has(Get(data, K_trigger), K_facility)
     /\ Has(Get(data, K_trigger), K_location)
     /\ ~Has(Get(data, K_trigger), K_town))
        => IF generate_event(WithLegacyTown(data), maps).ok
           THEN dx_script = generate_event(WithLegacyTown(data), maps).out
           ELSE failedAt = "generate" /\ err = generate_event(WithLegacyTown(data), maps).err

\* C11: a run of main() that fails inside generate_event, that is on the
\* content of the input document, exits with code 2 on a CompileError; the
\* exit code 3 is reached only by failures that are not of the document's
\* content; a run without failure exits with code 0.
C11_InputErrorsExitTwo ==
    pc = "exited" =>
        /\ failedAt = "generate" => exitcode = 2 /\ err.type = "CompileError"
        /\ exitcode = 3 => failedAt \in {"enums", "read", "write"}
        /\ (failedAt = "none" /\ argc = 3) => exitcode = 0

-----------------------------------------------------------------------------
(* Properties of compile_script_block, checked under SpecScript *)

\* cmd takes the `elif "choice" in cmd:` branch
IsChoiceNode(cmd) ==
    /\ IsDict(cmd)
    /\ ~Has(cmd, K_narration) /\ ~Has(cmd, K_hero_think)
    /\ ~Has(cmd, K_say) /\ ~Has(cmd, K_rename_say)
    /\ Has(cmd, K_choice)

OptionsOf(cmd) == Get(Get(cmd, K_choice), K_options).items

\* one line at indent n: n tabs, the content, a line feed
LineAt(n, content) == [i \in 1..n |-> "\t"] \o content \o <<"\n">>

RECURSIVE LabelList(_)
LabelList(opts) ==
    IF opts = <<>> THEN <<>>
    ELSE <<"[[">> \o PyStr(Get(Head(opts), K_label)) \o <<"]]">> \o LabelList(Tail(opts))

\* the branch blocks of the options, in order: an opening line with the
\* label ending in "{", the body compiled one level deeper, a closing line
RECURSIVE BranchBlocks(_, _)
BranchBlocks(opts, n) ==
    IF opts = <<>> THEN <<>>
    ELSE LineAt(n, <<"BRANCH:(", "[[">> \o PyStr(Get(Head(opts), K_label)) \o <<"]]", ")", "{">>)
         \o compile_script_block(Get(Head(opts), K_do), maps, "do", n + 1).out
         \o LineAt(n, <<"}">>)
         \o BranchBlocks(Tail(opts), n)

ChoiceText(cmd, n) ==
    LineAt(n, <<"CHOICE:(">> \o LabelList(OptionsOf(cmd)) \o <<")">>)
    \o BranchBlocks(OptionsOf(cmd), n)

\* C2: in a script that compiles, the text of each Choice node is one
\* selection line at the level of the node with all the labels in order,
\* then one block per option in order: an opening line with the label and
\* "{", the option's body compiled one level deeper, a closing "}" line at
\* the level of the node.
C2_ChoiceStructure ==
    (pc = "returned" /\ ret.ok) =>
        \A i \in 1..Len(call.script.items) :
            IsChoiceNode(call.script.items[i]) =>
                ret.out =
                    compile_script_block(YList(SubSeq(call.script.items, 1, i - 1)),
                                         maps, "script", call.level).out
                    \o ChoiceText(call.script.items[i], call.level)
                    \o compile_script_block(YList(SubSeq(call.script.items, i + 1,
                                                         Len(call.script.items))),
                                            maps, "script", call.level).out

\* a compiled choice of MaxOptions options, one of which holds a further
\* choice that has options with a body
C2_Witness ==
    /\ pc = "returned"
    /\ ret.ok
    /\ \E i \in 1..Len(call.script.items) :
         /\ IsChoiceNode(call.script.items[i])
         /\ Len(OptionsOf(call.script.items[i])) = MaxOptions
         /\ \E j \in 1..MaxOptions :
              LET do == Get(OptionsOf(call.script.items[i])[j], K_do).items
              IN  /\ do # <<>>
                  /\ IsChoiceNode(do[1])
                  /\ \E k \in 1..Len(OptionsOf(do[1])) :
                       Get(OptionsOf(do[1])[k], K_do).items # <<>>

\* C9: a choice whose options list is empty is rejected with a compile
\* error, so no selection line without labels is emitted.
C9_EmptyChoiceRejected ==
    (/\ pc = "returned"
     /\ IsList(call.script)
     /\ \E i \in 1..Len(call.script.items) :
          /\ IsChoiceNode(call.script.items[i])
          /\ IsDict(Get(call.script.items[i], K_choice))
          /\ Has(Get(call.script.items[i], K_choice), K_options)
          /\ Get(Get(call.script.items[i], K_choice), K_options) = YList(<<>>))
        => ~ret.ok /\ ret.err.type = "CompileError"

\* C10: a narration or hero_think node compiles to one line at the current
\* level with the node's text, unchanged, between "[[" and "]]".
C10_TextLiteral ==
    (/\ pc = "returned"
     /\ IsList(call.script)
     /\ Len(call.script.items) = 1
     /\ IsDict(call.script.items[1])
     /\ (Has(call.script.items[1], K_narration) \/ Has(call.script.items[1], K_hero_think)))
        => LET cmd == call.script.items[1]
               word == IF Has(cmd, K_narration) THEN "NARRATION:" ELSE "MONOLOGUE:"
               text == IF Has(cmd, K_narration) THEN Get(cmd, K_narration)
                       ELSE Get(cmd, K_hero_think)
           IN  /\ ret.ok
               /\ ret.out = LineAt(call.level, <<word, "[[">> \o PyStr(text) \o <<"]]">>)

-----------------------------------------------------------------------------
(* Properties of load_enum_map, checked under SpecLoad *)

\* x is a string with a character that is not white space
NonBlankString(x) == x.t = "str" /\ \E i \in 1..Len(x.s) : x.s[i] \notin Whitespace

IsStructured(v) == v.t = "dict" /\ Has(v, K_value) /\ Get(v, K_value).t = "dict"

\* the string of entry v in language lg by the order requested language,
\* then tc, a bare string resolving only when tc is requested; <<"#fail">>
\* when there is none
Resolved(v, lg) ==
    IF v.t = "str" THEN (IF lg = <<"tc">> THEN v.s ELSE <<"#fail">>)
    ELSE IF ~IsStructured(v) THEN <<"#fail">>
    ELSE IF Has(Get(v, K_value), lg) /\ NonBlankString(Get(Get(v, K_value), lg))
    THEN Get(Get(v, K_value), lg).s
    ELSE IF Has(Get(v, K_value), <<"tc">>) /\ NonBlankString(Get(Get(v, K_value), <<"tc">>))
    THEN Get(Get(v, K_value), <<"tc">>).s
    ELSE <<"#fail">>

ResolvedAsStated(v, lg) ==
    IF v.t = "str" THEN (IF NonBlankString(v) THEN v.s ELSE <<"#fail">>)
    ELSE IF ~IsStructured(v) THEN <<"#fail">>
    ELSE IF Has(Get(v, K_value), lg) /\ NonBlankString(Get(Get(v, K_value), lg))
    THEN Get(Get(v, K_value), lg).s
    ELSE IF Has(Get(v, K_value), <<"tc">>) /\ NonBlankString(Get(Get(v, K_value), <<"tc">>))
    THEN Get(Get(v, K_value), <<"tc">>).s
    ELSE <<"#fail">>

-----------------------------------------------------------------------------
(* Properties of EnumMaps.__init__, checked under SpecRegistry *)

\* the core file of category c is a mapping with at least one key
PrimaryNonEmpty(c) == fs[CoreFile(c)].t = "dict" /\ fs[CoreFile(c)].keys # <<>>

\* the core file of category c is not there, or holds nothing
PrimaryMissingOrEmpty(c) ==
    \/ fs[CoreFile(c)].t \in {"missing", "none"}
    \/ fs[CoreFile(c)].t = "dict" /\ fs[CoreFile(c)].keys = <<>>

KeysOf(file) == {file.keys[i] : i \in 1..Len(file.keys)}

\* C7: for every category of which the core file is a non-empty mapping,
\* the legacy file is not read, and the table of the registry has the keys
\* of the core file and no other, each with the value the core file alone
\* gives it; a legacy file is read only when the core file is missing or
\* empty.
C7_CoreSupersedesLegacy ==
    pc = "returned" =>
        \A i \in 1..Len(Categories) :
            /\ PrimaryNonEmpty(Categories[i]) =>
                 /\ OldFile(Categories[i]) \notin readLog
                 /\ ret.ok =>
                      /\ DOMAIN maps[Categories[i]] = KeysOf(fs[CoreFile(Categories[i])])
                      /\ \A k \in KeysOf(fs[CoreFile(Categories[i])]) :
                           maps[Categories[i]][k]
                               = Resolved(Get(fs[CoreFile(Categories[i])], k), lang)
            /\ OldFile(Categories[i]) \in readLog => PrimaryMissingOrEmpty(Categories[i])

\* a registry built where a category has a core table and a legacy file
\* with a key the core table does not have, and another category took its
\* legacy table
C7_Witness ==
    /\ pc = "returned"
    /\ ret.ok
    /\ \E i \in 1..Len(Categories) :
         /\ PrimaryNonEmpty(Categories[i])
         /\ fs[OldFile(Categories[i])].t = "dict"
         /\ KeysOf(fs[OldFile(Categories[i])]) \ KeysOf(fs[CoreFile(Categories[i])]) # {}
    /\ \E i \in 1..Len(Categories) :
         /\ OldFile(Categories[i]) \in readLog
         /\ maps[Categories[i]] # EmptyMap

-----------------------------------------------------------------------------
(* Properties of EnumMaps._map, checked under SpecLookup *)

\* the words of h separated by ", "
RECURSIVE Listed(_)
Listed(h) ==
    IF h = <<>> THEN <<>>
    ELSE Head(h) \o (IF Len(h) = 1 THEN <<>> ELSE <<", ">> \o Listed(Tail(h)))

\* the message of the unknown-key error that suggests the keys of h
UnknownKeyMessage(kind, k, h) ==
    <<"Unknown ", kind, " '">> \o k \o <<"'.">>
    \o (IF h = <<>> THEN <<>> ELSE <<" Did you mean: ">> \o Listed(h) \o <<" ?">>)

\* 2 * (matching characters) / (total length) of x against k is at least 0.6
Similar(x, k) == 10 * ratio(x, k)[1] >= 6 * ratio(x, k)[2]

\* x is at least as similar to k as y is
AtLeastAsSimilar(x, y, k) == ratio(x, k)[1] * ratio(y, k)[2] >= ratio(y, k)[1] * ratio(x, k)[2]

\* C8: a key that is in the table resolves to its value; a key that is not
\* makes the lookup fail with a compile error at the path of the lookup,
\* whose message names the key and suggests at most 3 distinct keys of the
\* table, each with similarity at least 0.6 to the key, most similar first.
C8_UnknownKeySuggestions ==
    pc = "returned" =>
        IF call.key \in DOMAIN call.mapping
        THEN ret = Ok(call.mapping[call.key])
        ELSE /\ ~ret.ok
             /\ ret.err.type = "CompileError"
             /\ ret.err.path = "trigger.town"
             /\ \E h \in UNION {[1..n -> DOMAIN call.mapping] : n \in 0..3} :
                  /\ ret.err.msg = UnknownKeyMessage(call.kind, call.key, h)
                  /\ \A i, j \in 1..Len(h) : i # j => h[i] # h[j]
                  /\ \A i \in 1..Len(h) : Similar(h[i], call.key)
                  /\ \A i \in 1..Len(h) - 1 : AtLeastAsSimilar(h[i], h[i + 1], call.key)

\* a lookup of "ab" in a table without it that has four keys similar enough,
\* of which the three most similar are suggested
C8_Witness ==
    /\ pc = "returned"
    /\ call.key = <<"a", "b">>
    /\ DOMAIN call.mapping = {<<"a", "b", "a">>, <<"a", "b", "b">>, <<"b", "a", "b">>, <<"b">>}
    /\ ~ret.ok
    /\ ret.err.msg = UnknownKeyMessage(call.kind, call.key,
                                       <<<<"b", "a", "b">>, <<"a", "b", "b">>, <<"a", "b", "a">>>>)

=============================================================================
